---- MODULE Spec2Model ----
(***************************************************************************)
(* Model of pyperflog: the one-time module initialisation (event + lock),  *)
(* the performance() wrapper with update_func_stats(), the module         *)
(* rewriter decorate_module_functions(), get_process_name() and            *)
(* prepare_directory().                                                    *)
(*                                                                         *)
(* Python strings are sequences of one-character strings, so that          *)
(* startswith(), strip() and f-string concatenation are computed.  Python  *)
(* values that may be None / int / str / tuple are tagged records.         *)
(***************************************************************************)
EXTENDS Integers, Sequences, FiniteSets, TLC

\* ------------------------------------------------------------------------
\* Bounds of the model
\* ------------------------------------------------------------------------
NumThreads == 3      \* threads that run the module-level init routine
MaxReruns  == 1      \* times the init routine is run again by a thread that finished it
MaxCalls   == 2      \* calls made through the installed wrappers
MaxOut     == 3      \* longest output of the process-table query (bytes)

Threads == 1..NumThreads

\* ------------------------------------------------------------------------
\* Python values
\* ------------------------------------------------------------------------
PyNone      == [type |-> "NoneType", int |-> 0, str |-> <<>>, items |-> <<>>]
PyInt(n)    == [type |-> "int",      int |-> n, str |-> <<>>, items |-> <<>>]
PyStr(s)    == [type |-> "str",      int |-> 0, str |-> s,    items |-> <<>>]
PyTuple(xs) == [type |-> "tuple",    int |-> 0, str |-> <<>>, items |-> xs]

\* Python truth value of  v  (the operand of `not` / `if`).
Truthy(v) ==
    CASE v.type = "NoneType" -> FALSE
      [] v.type = "int"      -> v.int # 0
      [] v.type = "str"      -> v.str # <<>>
      [] OTHER               -> v.items # <<>>

\* str.startswith
startswith(s, prefix) ==
    /\ Len(prefix) <= Len(s)
    /\ SubSeq(s, 1, Len(prefix)) = prefix

\* outcome of a Python call: a returned value or a raised exception
Return(v) == [kind |-> "return", value |-> v,      exc |-> "none"]
Raise(e)  == [kind |-> "raise",  value |-> PyNone, exc |-> e]

\* ------------------------------------------------------------------------
\* Module-level configuration (pyperflog.py 57-61) and the target module
\* ------------------------------------------------------------------------
Name_module_do_long_work ==
    <<"m","o","d","u","l","e","_","d","o","_","l","o","n","g","_","w","o","r","k">>
Name_module_add_two ==
    <<"m","o","d","u","l","e","_","a","d","d","_","t","w","o">>
Name_sleep == <<"s","l","e","e","p">>
Name_dunder_name == <<"_","_","n","a","m","e","_","_">>
Kw_value == <<"v","a","l","u","e">>

\* an attribute value of a module: a plain function, or something else
Pointer(kind, name, line) ==
    [kind |-> kind, name |-> name, co_filename |-> "some_module/module.py",
     co_firstlineno |-> line]

Func_module_do_long_work == Pointer("function", Name_module_do_long_work, 28)
Func_module_add_two      == Pointer("function", Name_module_add_two, 33)

\* some_module.module.__dict__ in insertion order
module ==
    << <<Name_dunder_name, Pointer("str", Name_dunder_name, 0)>>,
       <<Name_sleep, Pointer("builtin", Name_sleep, 0)>>,
       <<Name_module_do_long_work, Func_module_do_long_work>>,
       <<Name_module_add_two, Func_module_add_two>> >>

Prefix_module == <<"m","o","d","u","l","e","_">>

PROFILER_LOG_ROOT_PATH ==
    <<"p","e","r","f","o","r","m","a","n","c","e","_","l","o","g">>

\* ------------------------------------------------------------------------
\* get_process_name  (pyperflog.py 67-80)
\* ------------------------------------------------------------------------
\* bytes.decode() on the bytes the query can print here
Chr(b) ==
    CASE b = 10 -> "\n"
      [] b = 32 -> " "
      [] b = 97 -> "a"
      [] OTHER  -> "b"

decode(bytes) == [i \in 1..Len(bytes) |-> Chr(bytes[i])]

IsSpace(c) == c \in {" ", "\n", "\t", "\r"}

RECURSIVE lstrip(_)
lstrip(s) ==
    IF s # <<>> /\ IsSpace(Head(s)) THEN lstrip(Tail(s)) ELSE s

RECURSIVE rstrip(_)
rstrip(s) ==
    IF s # <<>> /\ IsSpace(s[Len(s)]) THEN rstrip(SubSeq(s, 1, Len(s) - 1)) ELSE s

strip(s) == rstrip(lstrip(s))

Digit(d) ==
    CASE d = 0 -> "0" [] d = 1 -> "1" [] d = 2 -> "2" [] d = 3 -> "3"
      [] d = 4 -> "4" [] d = 5 -> "5" [] d = 6 -> "6" [] d = 7 -> "7"
      [] d = 8 -> "8" [] OTHER -> "9"

\* f"{pid}" for pid >= 0
RECURSIVE PidStr(_)
PidStr(n) ==
    IF n < 10 THEN <<Digit(n)>> ELSE Append(PidStr(n \div 10), Digit(n % 10))

\* proc.communicate() of Popen(..., stdout=PIPE): a stream that is not piped
\* is returned as None whatever the child wrote to it.
communicate(child_out, child_err, stdout_piped, stderr_piped) ==
    << IF stdout_piped THEN child_out ELSE <<>>,
       IF stderr_piped THEN PyStr(decode(child_err)) ELSE PyNone >>

get_process_name(pid, child_out, child_err) ==
    LET oe  == communicate(child_out, child_err, TRUE, FALSE)
        out == oe[1]
        err == oe[2]
        process_name == IF ~Truthy(err) THEN PyStr(strip(decode(out))) ELSE PyNone
    IN  IF Truthy(process_name) THEN process_name.str ELSE PidStr(pid)

\* ------------------------------------------------------------------------
\* Filesystem and prepare_directory  (pyperflog.py 83-97)
\* ------------------------------------------------------------------------
\* os.path.dirname: everything before the last "/"
RECURSIVE dirname(_)
dirname(path) ==
    IF path = <<>> THEN <<>>
    ELSE IF path[Len(path)] = "/" THEN SubSeq(path, 1, Len(path) - 1)
    ELSE dirname(SubSeq(path, 1, Len(path) - 1))

\* os.makedirs(path, exist_ok=True): no error when the directory is there,
\* creates it (and the missing parents) when the OS permits, else OSError.
makedirs(dirs, can_mkdir, path) ==
    IF path \in dirs THEN [dirs |-> dirs, exc |-> "none"]
    ELSE IF can_mkdir THEN [dirs |-> dirs \cup {path, dirname(path)}, exc |-> "none"]
    ELSE [dirs |-> dirs, exc |-> "OSError"]

\* prepare_directory without the except clause
prepare_directory_uncaught(dirs, can_mkdir, path) ==
    LET r == makedirs(dirs, can_mkdir, path)
    IN  IF r.exc = "OSError"
        THEN [dirs |-> r.dirs, outcome |-> Raise("OSError")]
        ELSE [dirs |-> r.dirs, outcome |-> Return(PyInt(1))]

prepare_directory(dirs, can_mkdir, path) ==
    LET r == makedirs(dirs, can_mkdir, path)
    IN  IF r.exc = "OSError"
        THEN [dirs |-> r.dirs, outcome |-> Return(PyInt(0))]   \* False
        ELSE [dirs |-> r.dirs, outcome |-> Return(PyInt(1))]   \* True

\* ------------------------------------------------------------------------
\* The functions of some_module/module.py  (module.py 28-42)
\* ------------------------------------------------------------------------
\* A call site: positional values and keyword (name, value) pairs.
CallArgs(args, kwargs) == [args |-> args, kwargs |-> kwargs]

\* module_do_long_work(): sleeps, returns None.
module_do_long_work(c) ==
    IF c.args # <<>> \/ c.kwargs # {}
    THEN [outcome |-> Raise("TypeError"), lines |-> 0]
    ELSE [outcome |-> Return(PyNone), lines |-> 1]

\* module_add_two(value): returns (0, value + 2).
module_add_two(c) ==
    LET kw == {p \in c.kwargs : p[1] = Kw_value} IN
    IF \/ Len(c.args) + Cardinality(c.kwargs) # 1
       \/ (c.args = <<>> /\ kw = {})
    THEN [outcome |-> Raise("TypeError"), lines |-> 0]
    ELSE LET value == IF c.args # <<>> THEN c.args[1]
                      ELSE (CHOOSE p \in kw : TRUE)[2]
         IN  IF value.type = "int"
             THEN [outcome |-> Return(PyTuple(<<PyInt(0), PyInt(value.int + 2)>>)),
                   lines |-> 1]
             ELSE [outcome |-> Raise("TypeError"), lines |-> 1]

\* calling the function object  func  with the call site  c
Apply(func, c) ==
    IF func.name = Name_module_add_two THEN module_add_two(c)
    ELSE module_do_long_work(c)

\* ------------------------------------------------------------------------
\* The timing engine (line_profiler.LineProfiler), as the code uses it
\* ------------------------------------------------------------------------
\* key of a function in stats.timings
TimingKey(func) == <<func.co_filename, func.co_firstlineno, func.name>>

EmptyMap == [k \in {} |-> 0]

MapPut(m, k, v) == [x \in DOMAIN m \cup {k} |-> IF x = k THEN v ELSE m[x]]

MapGet(m, k) == IF k \in DOMAIN m THEN m[k] ELSE 0

\* LineProfiler(): an engine with no timings
LineProfiler == EmptyMap

\* profiler(func): registers the function (an entry with no line timings)
add_function(timings, func) ==
    IF TimingKey(func) \in DOMAIN timings THEN timings
    ELSE MapPut(timings, TimingKey(func), 0)

\* the engine accumulates what it recorded for the lines a call executed
record_lines(timings, func, recorded) ==
    MapPut(timings, TimingKey(func), MapGet(timings, TimingKey(func)) + recorded)

\* ------------------------------------------------------------------------
\* update_func_stats  (pyperflog.py 118-145)
\* ------------------------------------------------------------------------
\* w: the world a call acts on
\*   profilers       engines constructed so far (their timings)
\*   fs_dirs         existing directories
\*   fs_files        reports appended to each existing file
\*   open_calls      number of open() calls, per path
\*   show_func_calls number of line_profiler.show_func calls, per function name
\*   get_stats_calls number of profiler.get_stats() calls
\* io: what the OS does with this call's open and write
\* update_func_stats without the `if not timing: return`
update_func_stats_no_check(w, profiler, func, profiler_log_path, io) ==
    LET func_name == func.name
        w1        == [w EXCEPT !.get_stats_calls = @ + 1]
        path      == profiler_log_path \o <<"/">> \o func_name
        w2        == [w1 EXCEPT !.open_calls = MapPut(@, path, MapGet(@, path) + 1)]
        opened    == dirname(path) \in w.fs_dirs /\ io.open_ok
        w3        == [w2 EXCEPT !.fs_files =
                         IF path \in DOMAIN @ THEN @ ELSE MapPut(@, path, 0)]
        w4        == [w3 EXCEPT !.show_func_calls =
                         MapPut(@, func_name, MapGet(@, func_name) + 1)]
        w5        == [w4 EXCEPT !.fs_files = MapPut(@, path, @[path] + 1)]
    IN  IF ~opened THEN [w |-> w2, exc |-> "OSError"]
        ELSE IF ~io.write_ok THEN [w |-> w4, exc |-> "OSError"]
        ELSE [w |-> w5, exc |-> "none"]

\* update_func_stats that opens the log file and renders nothing into it
update_func_stats_no_render(w, profiler, func, profiler_log_path, io) ==
    LET timing    == MapGet(w.profilers[profiler], TimingKey(func))
        w1        == [w EXCEPT !.get_stats_calls = @ + 1]
        path      == profiler_log_path \o <<"/">> \o func.name
        w2        == [w1 EXCEPT !.open_calls = MapPut(@, path, MapGet(@, path) + 1)]
        opened    == dirname(path) \in w.fs_dirs /\ io.open_ok
        w3        == [w2 EXCEPT !.fs_files =
                         IF path \in DOMAIN @ THEN @ ELSE MapPut(@, path, 0)]
    IN  IF timing = 0 THEN [w |-> w1, exc |-> "none"]
        ELSE IF ~opened THEN [w |-> w2, exc |-> "OSError"]
        ELSE [w |-> w3, exc |-> "none"]

update_func_stats(w, profiler, func, profiler_log_path, io) ==
    LET func_name == func.name
        timing    == MapGet(w.profilers[profiler], TimingKey(func))
        w1        == [w EXCEPT !.get_stats_calls = @ + 1]
        path      == profiler_log_path \o <<"/">> \o func_name
        w2        == [w1 EXCEPT !.open_calls = MapPut(@, path, MapGet(@, path) + 1)]
        opened    == dirname(path) \in w.fs_dirs /\ io.open_ok
        w3        == [w2 EXCEPT !.fs_files =
                         IF path \in DOMAIN @ THEN @ ELSE MapPut(@, path, 0)]
        w4        == [w3 EXCEPT !.show_func_calls =
                         MapPut(@, func_name, MapGet(@, func_name) + 1)]
        w5        == [w4 EXCEPT !.fs_files = MapPut(@, path, @[path] + 1)]
    IN  IF timing = 0 THEN [w |-> w1, exc |-> "none"]
        ELSE IF ~opened THEN [w |-> w2, exc |-> "OSError"]
        ELSE IF ~io.write_ok THEN [w |-> w4, exc |-> "OSError"]
        ELSE [w |-> w5, exc |-> "none"]

\* ------------------------------------------------------------------------
\* performance  (pyperflog.py 148-163)
\* ------------------------------------------------------------------------
\* the closure returned by performance(profiler, func, profiler_log_path)
performance(profiler, func, profiler_log_path) ==
    [func |-> func, profiler |-> profiler, profiler_log_path |-> profiler_log_path]

\* wrapper that forgets `return result`
wrapper_no_return(w, closure, c, recorded, io) ==
    LET func   == closure.func
        w1     == [w EXCEPT !.profilers[closure.profiler] = add_function(@, func)]
        passed == CallArgs(c.args, c.kwargs)
        r      == Apply(func, passed)
        w2     == [w1 EXCEPT !.profilers[closure.profiler] =
                      record_lines(@, func, IF recorded THEN r.lines ELSE 0)]
        u      == update_func_stats(w2, closure.profiler, func,
                                    closure.profiler_log_path, io)
    IN  IF r.outcome.kind = "raise"
        THEN [w |-> w2, passed |-> passed, orig |-> r.outcome, outcome |-> r.outcome]
        ELSE IF u.exc # "none"
        THEN [w |-> u.w, passed |-> passed, orig |-> r.outcome, outcome |-> Raise(u.exc)]
        ELSE [w |-> u.w, passed |-> passed, orig |-> r.outcome, outcome |-> Return(PyNone)]

\* wrapper that updates the stats in a `finally`
wrapper_finally(w, closure, c, recorded, io) ==
    LET func   == closure.func
        w1     == [w EXCEPT !.profilers[closure.profiler] = add_function(@, func)]
        passed == CallArgs(c.args, c.kwargs)
        r      == Apply(func, passed)
        w2     == [w1 EXCEPT !.profilers[closure.profiler] =
                      record_lines(@, func, IF recorded THEN r.lines ELSE 0)]
        u      == update_func_stats(w2, closure.profiler, func,
                                    closure.profiler_log_path, io)
    IN  IF u.exc # "none"
        THEN [w |-> u.w, passed |-> passed, orig |-> r.outcome, outcome |-> Raise(u.exc)]
        ELSE [w |-> u.w, passed |-> passed, orig |-> r.outcome, outcome |-> r.outcome]

\* wrapper that catches the failure of the stats update
wrapper_swallow(w, closure, c, recorded, io) ==
    LET func   == closure.func
        w1     == [w EXCEPT !.profilers[closure.profiler] = add_function(@, func)]
        passed == CallArgs(c.args, c.kwargs)
        r      == Apply(func, passed)
        w2     == [w1 EXCEPT !.profilers[closure.profiler] =
                      record_lines(@, func, IF recorded THEN r.lines ELSE 0)]
        u      == update_func_stats(w2, closure.profiler, func,
                                    closure.profiler_log_path, io)
    IN  IF r.outcome.kind = "raise"
        THEN [w |-> w2, passed |-> passed, orig |-> r.outcome, outcome |-> r.outcome]
        ELSE [w |-> u.w, passed |-> passed, orig |-> r.outcome, outcome |-> r.outcome]

\* one call  wrapper(*args, **kwargs)  of that closure
wrapper(w, closure, c, recorded, io) ==
    LET func   == closure.func
        w1     == [w EXCEPT !.profilers[closure.profiler] = add_function(@, func)]
        passed == CallArgs(c.args, c.kwargs)
        r      == Apply(func, passed)
        w2     == [w1 EXCEPT !.profilers[closure.profiler] =
                      record_lines(@, func, IF recorded THEN r.lines ELSE 0)]
        u      == update_func_stats(w2, closure.profiler, func,
                                    closure.profiler_log_path, io)
    IN  IF r.outcome.kind = "raise"
        THEN [w |-> w2, passed |-> passed, orig |-> r.outcome, outcome |-> r.outcome]
        ELSE IF u.exc # "none"
        THEN [w |-> u.w, passed |-> passed, orig |-> r.outcome, outcome |-> Raise(u.exc)]
        ELSE [w |-> u.w, passed |-> passed, orig |-> r.outcome, outcome |-> r.outcome]

\* ------------------------------------------------------------------------
\* decorate_module_functions  (pyperflog.py 166-186)
\* ------------------------------------------------------------------------
inspect_isfunction(pointer) == pointer.kind = "function"

RECURSIVE decorate_from(_, _, _, _, _, _)
decorate_from(i, target_module, profiler, profiler_log_path, func_name_prefix, globals) ==
    IF i > Len(target_module) THEN globals
    ELSE LET attr    == target_module[i][1]
             pointer == target_module[i][2]
             skip    == \/ ~inspect_isfunction(pointer)
                        \/ /\ Truthy(func_name_prefix)
                           /\ ~startswith(attr, func_name_prefix.str)
             g       == IF skip THEN globals
                        ELSE MapPut(globals, attr,
                                    performance(profiler, pointer, profiler_log_path))
         IN  decorate_from(i + 1, target_module, profiler, profiler_log_path,
                           func_name_prefix, g)

\* decorate_module_functions that ignores the prefix
decorate_module_functions_unfiltered(target_module, profiler, profiler_log_path, func_name_prefix, globals) ==
    decorate_from(1, target_module, profiler, profiler_log_path, PyNone, globals)

decorate_module_functions(target_module, profiler, profiler_log_path, func_name_prefix, globals) ==
    decorate_from(1, target_module, profiler, profiler_log_path,
                  func_name_prefix, globals)

\* ------------------------------------------------------------------------
\* State
\* ------------------------------------------------------------------------
VARIABLES
    os_pid,                 \* os.getpid()
    ps_stdout,              \* bytes the process-table query prints to stdout
    ps_stderr,              \* bytes the process-table query prints to stderr
    can_mkdir,              \* whether the OS lets the log directory be created
    PROFILER_DECORATE_MODULE,                 \* pyperflog.py 58
    PROFILER_DECORATE_FUNCTIONS_WITH_PREFIX,  \* pyperflog.py 59
    PROFILER,               \* pyperflog.py 61: 0 is None, else index of the engine
    already_overwritten,    \* pyperflog.py 63: the Event's flag
    overwrite_lock,         \* pyperflog.py 64: 0 is free, else the holder
    profiler_process_log,   \* pyperflog.py 192
    f_globals,              \* names bound in this module by the rewriter
    world,                  \* engines, filesystem, and calls of open/show_func/get_stats
    pc,                     \* position of each thread in the init routine
    reruns,                 \* times the init routine was started again
    prepare_ret,            \* values returned by prepare_directory, in order
    decorate_runs,          \* completed runs of decorate_module_functions
    n_calls,                \* calls made through wrappers
    last_call,              \* the last of them
    tally,                  \* per function name: calls by what happened in them
    process_name            \* result of get_process_name (None before it ran)

vars == <<os_pid, ps_stdout, ps_stderr, can_mkdir, PROFILER_DECORATE_MODULE,
          PROFILER_DECORATE_FUNCTIONS_WITH_PREFIX, PROFILER, already_overwritten,
          overwrite_lock, profiler_process_log, f_globals, world, pc, reruns,
          prepare_ret, decorate_runs, n_calls, last_call, tally, process_name>>

config_vars == <<os_pid, ps_stdout, ps_stderr, can_mkdir, PROFILER_DECORATE_MODULE,
                 PROFILER_DECORATE_FUNCTIONS_WITH_PREFIX>>

call_vars == <<n_calls, last_call, tally>>

\* f"{PROFILER_LOG_ROOT_PATH}/{get_process_name()}"
ProcessLog == PROFILER_LOG_ROOT_PATH \o <<"/">> \o
              get_process_name(os_pid, ps_stdout, ps_stderr)

NoCall == [name |-> <<>>, c |-> CallArgs(<<>>, {}), passed |-> CallArgs(<<>>, {}),
           orig |-> Return(PyNone), outcome |-> Return(PyNone),
           found |-> FALSE, io |-> [open_ok |-> TRUE, write_ok |-> TRUE]]

NoTally == [ok |-> 0, found |-> 0, opened |-> 0]

EmptyWorld(dirs) ==
    [profilers |-> <<>>, fs_dirs |-> dirs, fs_files |-> EmptyMap,
     open_calls |-> EmptyMap, show_func_calls |-> EmptyMap, get_stats_calls |-> 0]

\* state right after lines 57-64 ran, whatever the environment is
InitProgram ==
    /\ PROFILER = 0
    /\ already_overwritten = FALSE
    /\ overwrite_lock = 0
    /\ profiler_process_log = <<>>
    /\ f_globals = EmptyMap
    /\ pc = [t \in Threads |-> "test"]
    /\ reruns = 0
    /\ prepare_ret = <<>>
    /\ decorate_runs = 0
    /\ n_calls = 0
    /\ last_call = NoCall
    /\ tally = [f \in {Name_module_add_two, Name_module_do_long_work} |-> NoTally]
    /\ process_name = PyNone

\* outcomes of the process-table query: a name, or an error message
PsOutcomes == { << <<97, 10>>, <<>> >>, << <<>>, <<98>> >> }

\* the log directory is there, or is not and can be made, or cannot be made
InitEnv(outcomes) ==
    /\ os_pid = 42
    /\ \E o \in outcomes : ps_stdout = o[1] /\ ps_stderr = o[2]
    /\ PROFILER_DECORATE_MODULE = module
    /\ PROFILER_DECORATE_FUNCTIONS_WITH_PREFIX = PyStr(Prefix_module)
    /\ \E fs \in {"exists", "creatable", "blocked"} :
          /\ can_mkdir = (fs # "blocked")
          /\ world = EmptyWorld(IF fs = "exists"
                                THEN {ProcessLog, PROFILER_LOG_ROOT_PATH} ELSE {})

\* several threads run the main routine
InitThreads == InitEnv(PsOutcomes) /\ InitProgram

\* the importing thread runs the main routine, then the wrappers are called
Init == InitEnv({ << <<97, 10>>, <<>> >> }) /\ InitProgram

\* ------------------------------------------------------------------------
\* The main routine  (pyperflog.py 190-199), one action per step of a thread
\* ------------------------------------------------------------------------
\* 190: if not __already_overwritten.is_set():
TestEvent(t) ==
    /\ pc[t] = "test"
    /\ pc' = [pc EXCEPT ![t] = IF ~already_overwritten THEN "lock" ELSE "done"]
    /\ UNCHANGED <<config_vars, call_vars, PROFILER, already_overwritten, overwrite_lock,
                   profiler_process_log, f_globals, world, reruns, prepare_ret,
                   decorate_runs, process_name>>

\* 191: with __overwrite_lock:
AcquireLock(t) ==
    /\ pc[t] = "lock"
    /\ overwrite_lock = 0
    /\ overwrite_lock' = t
    /\ pc' = [pc EXCEPT ![t] = "label"]
    /\ UNCHANGED <<config_vars, call_vars, PROFILER, already_overwritten,
                   profiler_process_log, f_globals, world, reruns, prepare_ret,
                   decorate_runs, process_name>>

\* 192: profiler_process_log = f"{PROFILER_LOG_ROOT_PATH}/{get_process_name()}"
ResolveLabel(t) ==
    /\ pc[t] = "label"
    /\ process_name' = PyStr(get_process_name(os_pid, ps_stdout, ps_stderr))
    /\ profiler_process_log' = PROFILER_LOG_ROOT_PATH \o <<"/">> \o process_name'.str
    /\ pc' = [pc EXCEPT ![t] = "mkdir"]
    /\ UNCHANGED <<config_vars, call_vars, PROFILER, already_overwritten, overwrite_lock,
                   f_globals, world, reruns, prepare_ret, decorate_runs>>

\* 193: prepare_directory(profiler_process_log)   (the result is dropped)
PrepareDirectory(t) ==
    /\ pc[t] = "mkdir"
    /\ LET r == prepare_directory(world.fs_dirs, can_mkdir, profiler_process_log)
       IN  /\ world' = [world EXCEPT !.fs_dirs = r.dirs]
           /\ prepare_ret' = Append(prepare_ret, r.outcome)
           /\ pc' = [pc EXCEPT ![t] = IF r.outcome.kind = "raise" THEN "failed"
                                      ELSE "engine"]
    /\ UNCHANGED <<config_vars, call_vars, PROFILER, already_overwritten, overwrite_lock,
                   profiler_process_log, f_globals, reruns, decorate_runs, process_name>>

\* the main routine with the event set before the module is rewritten
ConstructEngine_SetsEvent(t) ==
    /\ pc[t] = "engine"
    /\ world' = [world EXCEPT !.profilers = Append(@, LineProfiler)]
    /\ PROFILER' = Len(world.profilers) + 1
    /\ already_overwritten' = TRUE
    /\ pc' = [pc EXCEPT ![t] = "decorate"]
    /\ UNCHANGED <<config_vars, call_vars, overwrite_lock,
                   profiler_process_log, f_globals, reruns, prepare_ret, decorate_runs,
                   process_name>>

\* 194: PROFILER = LineProfiler()
ConstructEngine(t) ==
    /\ pc[t] = "engine"
    /\ world' = [world EXCEPT !.profilers = Append(@, LineProfiler)]
    /\ PROFILER' = Len(world.profilers) + 1
    /\ pc' = [pc EXCEPT ![t] = "decorate"]
    /\ UNCHANGED <<config_vars, call_vars, already_overwritten, overwrite_lock,
                   profiler_process_log, f_globals, reruns, prepare_ret, decorate_runs,
                   process_name>>

\* 195-198: decorate_module_functions(...)
Decorate(t) ==
    /\ pc[t] = "decorate"
    /\ f_globals' = decorate_module_functions(PROFILER_DECORATE_MODULE, PROFILER,
                        profiler_process_log,
                        PROFILER_DECORATE_FUNCTIONS_WITH_PREFIX, f_globals)
    /\ decorate_runs' = decorate_runs + 1
    /\ pc' = [pc EXCEPT ![t] = "set"]
    /\ UNCHANGED <<config_vars, call_vars, PROFILER, already_overwritten, overwrite_lock,
                   profiler_process_log, world, reruns, prepare_ret, process_name>>

\* 199: __already_overwritten.set()
SetEvent(t) ==
    /\ pc[t] = "set"
    /\ already_overwritten' = TRUE
    /\ pc' = [pc EXCEPT ![t] = "unlock"]
    /\ UNCHANGED <<config_vars, call_vars, PROFILER, overwrite_lock,
                   profiler_process_log, f_globals, world, reruns, prepare_ret,
                   decorate_runs, process_name>>

\* end of the with block: the lock is released
ReleaseLock(t) ==
    /\ pc[t] = "unlock"
    /\ overwrite_lock' = 0
    /\ pc' = [pc EXCEPT ![t] = "done"]
    /\ UNCHANGED <<config_vars, call_vars, PROFILER, already_overwritten,
                   profiler_process_log, f_globals, world, reruns, prepare_ret,
                   decorate_runs, process_name>>

\* the routine is run again by a thread that finished it
Rerun(t) ==
    /\ pc[t] = "done"
    /\ reruns < MaxReruns
    /\ reruns' = reruns + 1
    /\ pc' = [pc EXCEPT ![t] = "test"]
    /\ UNCHANGED <<config_vars, call_vars, PROFILER, already_overwritten, overwrite_lock,
                   profiler_process_log, f_globals, world, prepare_ret, decorate_runs,
                   process_name>>

\* ------------------------------------------------------------------------
\* A call through a name the rewriter bound
\* ------------------------------------------------------------------------
CallSites ==
    { CallArgs(<<>>, {}),
      CallArgs(<<PyInt(4)>>, {}),
      CallArgs(<<>>, {<<Kw_value, PyInt(4)>>}),
      CallArgs(<<PyStr(<<"x">>)>>, {}) }

\* the open fails; the open succeeds and the write fails; both succeed
IOs == { [open_ok |-> FALSE, write_ok |-> TRUE],
         [open_ok |-> TRUE,  write_ok |-> FALSE],
         [open_ok |-> TRUE,  write_ok |-> TRUE] }

Call(name, c, recorded, io) ==
    /\ n_calls < MaxCalls
    /\ name \in DOMAIN f_globals
    /\ LET closure == f_globals[name]
           r       == wrapper(world, closure, c, recorded, io)
           ok      == Apply(closure.func, c).outcome.kind = "return"
           found   == MapGet(r.w.profilers[closure.profiler],
                             TimingKey(closure.func)) > 0
           opened  == closure.profiler_log_path \in world.fs_dirs /\ io.open_ok
       IN  /\ world' = r.w
           /\ last_call' = [name |-> name, c |-> c, passed |-> r.passed,
                            orig |-> r.orig, outcome |-> r.outcome,
                            found |-> found, io |-> io]
           /\ tally' = [tally EXCEPT ![name] =
                          [ok     |-> @.ok + (IF ok THEN 1 ELSE 0),
                           found  |-> @.found + (IF ok /\ found THEN 1 ELSE 0),
                           opened |-> @.opened + (IF ok /\ found /\ opened THEN 1 ELSE 0)]]
    /\ n_calls' = n_calls + 1
    /\ UNCHANGED <<config_vars, PROFILER, already_overwritten, overwrite_lock,
                   profiler_process_log, f_globals, pc, reruns, prepare_ret,
                   decorate_runs, process_name>>

ThreadStep(t) ==
    \/ TestEvent(t)
    \/ AcquireLock(t)
    \/ ResolveLabel(t)
    \/ PrepareDirectory(t)
    \/ ConstructEngine(t)
    \/ Decorate(t)
    \/ SetEvent(t)
    \/ ReleaseLock(t)

\* any number of threads run the main routine, some of them again
NextThreads ==
    \/ \E t \in Threads : ThreadStep(t)
    \/ \E t \in Threads : Rerun(t)

SpecThreads == InitThreads /\ [][NextThreads]_vars

\* the thread that imports the module
MainThread == 1

Next ==
    \/ ThreadStep(MainThread)
    \/ \E name \in {Name_module_add_two, Name_module_do_long_work}, c \in CallSites,
          recorded \in BOOLEAN, io \in IOs : Call(name, c, recorded, io)

Spec == Init /\ [][Next]_vars

\* the importing thread is scheduled until its routine ends
FairSpec == Spec /\ WF_vars(ThreadStep(MainThread))

TypeOK ==
    /\ PROFILER \in 0..Len(world.profilers)
    /\ overwrite_lock \in 0..NumThreads

\* ------------------------------------------------------------------------
\* get_process_name on any outcome of the process-table query
\* ------------------------------------------------------------------------
BoundedSeqs(S, n) == UNION {[1..k -> S] : k \in 0..n}

InitName ==
    /\ os_pid \in {7, 120}
    /\ ps_stdout \in BoundedSeqs({10, 32, 97}, MaxOut)
    /\ ps_stderr \in {<<>>, <<98>>}
    /\ can_mkdir = TRUE
    /\ PROFILER_DECORATE_MODULE = module
    /\ PROFILER_DECORATE_FUNCTIONS_WITH_PREFIX = PyStr(Prefix_module)
    /\ world = EmptyWorld({})
    /\ InitProgram

CallGetProcessName ==
    /\ process_name = PyNone
    /\ process_name' = PyStr(get_process_name(os_pid, ps_stdout, ps_stderr))
    /\ UNCHANGED <<config_vars, call_vars, PROFILER, already_overwritten, overwrite_lock,
                   profiler_process_log, f_globals, world, pc, reruns, prepare_ret,
                   decorate_runs>>

NextName == CallGetProcessName

SpecName == InitName /\ [][NextName]_vars

\* ------------------------------------------------------------------------
\* decorate_module_functions on any target module and prefix
\* ------------------------------------------------------------------------
AttrPool == << <<"m","_","a">>, <<"m","_">>, <<"m">>, <<"h","_","m","_">> >>

AttrKinds == {"absent", "function", "builtin", "str"}

\* the module that has attribute AttrPool[i] of kind kinds[i]
ModuleOf(kinds) ==
    SelectSeq([i \in 1..Len(AttrPool) |->
                  <<AttrPool[i], Pointer(kinds[i], AttrPool[i], i)>>],
              LAMBDA p : p[2].kind # "absent")

Prefixes == {PyNone, PyStr(<<>>), PyStr(<<"m">>), PyStr(<<"m","_">>),
             PyStr(<<"m","_","a","b">>)}

InitDecorate ==
    /\ os_pid = 42
    /\ ps_stdout = <<97, 10>>
    /\ ps_stderr = <<>>
    /\ can_mkdir = TRUE
    /\ \E kinds \in [1..Len(AttrPool) -> AttrKinds] :
          PROFILER_DECORATE_MODULE = ModuleOf(kinds)
    /\ PROFILER_DECORATE_FUNCTIONS_WITH_PREFIX \in Prefixes
    /\ world = EmptyWorld({})
    /\ InitProgram

CallDecorate ==
    /\ decorate_runs = 0
    /\ f_globals' = decorate_module_functions(PROFILER_DECORATE_MODULE, 1, ProcessLog,
                        PROFILER_DECORATE_FUNCTIONS_WITH_PREFIX, f_globals)
    /\ decorate_runs' = 1
    /\ UNCHANGED <<config_vars, call_vars, PROFILER, already_overwritten, overwrite_lock,
                   profiler_process_log, world, pc, reruns, prepare_ret, process_name>>

NextDecorate == CallDecorate

SpecDecorate == InitDecorate /\ [][NextDecorate]_vars

\* ------------------------------------------------------------------------
\* Properties
\* ------------------------------------------------------------------------
\* the function object the target module holds under  name
OriginalOf(name) ==
    LET i == CHOOSE i \in 1..Len(PROFILER_DECORATE_MODULE) :
                 PROFILER_DECORATE_MODULE[i][1] = name
    IN  PROFILER_DECORATE_MODULE[i][2]

\* attributes of the target module the rewriter has to wrap
SelectedAttrs ==
    {i \in 1..Len(PROFILER_DECORATE_MODULE) :
        /\ PROFILER_DECORATE_MODULE[i][2].kind = "function"
        /\ \/ PROFILER_DECORATE_FUNCTIONS_WITH_PREFIX = PyNone
           \/ startswith(PROFILER_DECORATE_MODULE[i][1],
                         PROFILER_DECORATE_FUNCTIONS_WITH_PREFIX.str)}

SelectedNames == {PROFILER_DECORATE_MODULE[i][1] : i \in SelectedAttrs}

LogFile(name) == ProcessLog \o <<"/">> \o name

\* what the original function does on the arguments of the last call
LastOriginal == Apply(OriginalOf(last_call.name), last_call.c).outcome

\* the log write of the last call cannot succeed
LastWriteFails ==
    \/ ProcessLog \notin world.fs_dirs
    \/ ~last_call.io.open_ok
    \/ ~last_call.io.write_ok

\* C1: the sequence {label, directory, engine, decorate} runs at most once per
\* process: at most one engine is constructed and at most one wrapper set is
\* installed, whatever the interleaving of the threads and the re-runs.
C1_InitOnce ==
    /\ Len(world.profilers) <= 1
    /\ decorate_runs <= 1

\* C2: when the original returns and the log write does not fail, the wrapper
\* hands the original exactly the arguments it got and returns exactly the
\* original's value, on every call.
C2_WrapperTransparent ==
    (/\ n_calls > 0
     /\ LastOriginal.kind = "return"
     /\ (last_call.found => ~LastWriteFails))
    => /\ last_call.passed = last_call.c
       /\ last_call.outcome = LastOriginal

C2_Witness ==
    /\ n_calls = 2
    /\ last_call.name = Name_module_add_two
    /\ last_call.c = CallArgs(<<>>, {<<Kw_value, PyInt(4)>>})
    /\ last_call.found
    /\ last_call.outcome = Return(PyTuple(<<PyInt(0), PyInt(6)>>))

\* C3: when the original raises, the wrapper raises the same exception and the
\* stats update is skipped: no snapshot is fetched, no file is opened, nothing
\* is rendered or appended.
C3_RaiseSkipsUpdate ==
    [][(/\ n_calls' = n_calls + 1
        /\ Apply(OriginalOf(last_call'.name), last_call'.c).outcome.kind = "raise")
       => /\ last_call'.outcome = Apply(OriginalOf(last_call'.name), last_call'.c).outcome
          /\ world'.get_stats_calls = world.get_stats_calls
          /\ world'.open_calls = world.open_calls
          /\ world'.show_func_calls = world.show_func_calls
          /\ world'.fs_files = world.fs_files]_vars

C3_Witness ==
    /\ n_calls > 0
    /\ last_call.outcome = Raise("TypeError")
    /\ last_call.found
    /\ ~LastWriteFails

\* C4 as stated: after any sequence of calls, the opens of a function's log
\* file and the renders of its report both equal the number of calls in which
\* the underlying call returned.
C4_OpensEqualSuccessfulCalls ==
    \A f \in DOMAIN tally :
        /\ MapGet(world.open_calls, LogFile(f)) = tally[f].ok
        /\ MapGet(world.show_func_calls, f) = tally[f].ok

\* C4 amended: the opens of a function's log file equal the number of calls in
\* which the underlying call returned and a timing entry was found; the renders
\* equal the number of those whose open succeeded; no other file is opened.
\* Both are N when all N successful calls find an entry and open the file.
C4_OpensEqualFoundCalls ==
    /\ \A f \in DOMAIN tally :
          /\ MapGet(world.open_calls, LogFile(f)) = tally[f].found
          /\ MapGet(world.show_func_calls, f) = tally[f].opened
          /\ tally[f].opened = tally[f].ok =>
                /\ MapGet(world.open_calls, LogFile(f)) = tally[f].ok
                /\ MapGet(world.show_func_calls, f) = tally[f].ok
    /\ DOMAIN world.open_calls \subseteq {LogFile(f) : f \in DOMAIN tally}
    /\ DOMAIN world.show_func_calls \subseteq DOMAIN tally

C4_Witness ==
    /\ tally[Name_module_add_two].ok = 2
    /\ tally[Name_module_add_two].opened = 2
    /\ MapGet(world.open_calls, LogFile(Name_module_add_two)) = 2

\* C5: after decorate_module_functions the names bound are exactly the plain
\* functions of the target module whose name starts with the prefix, each
\* bound to the performance wrapper of that function.
C5_BindsExactlySelected ==
    decorate_runs = 1 =>
        /\ DOMAIN f_globals = SelectedNames
        /\ \A i \in SelectedAttrs :
              f_globals[PROFILER_DECORATE_MODULE[i][1]] =
                  performance(1, PROFILER_DECORATE_MODULE[i][2], ProcessLog)

C5_Witness ==
    /\ decorate_runs = 1
    /\ PROFILER_DECORATE_FUNCTIONS_WITH_PREFIX = PyStr(<<"m","_">>)
    /\ \A i \in 1..Len(AttrPool) :
          /\ Len(PROFILER_DECORATE_MODULE) = Len(AttrPool)
          /\ PROFILER_DECORATE_MODULE[i][2].kind =
                (IF i = 2 THEN "str" ELSE "function")
    /\ DOMAIN f_globals = {<<"m","_","a">>}

\* C6: whenever the event is set, the directory step has run, the engine exists
\* and every selected wrapper is installed; the event is set only by the thread
\* that holds the lock at the last step, and is never cleared.
InitComplete ==
    /\ prepare_ret # <<>>
    /\ PROFILER # 0
    /\ \A name \in SelectedNames :
          /\ name \in DOMAIN f_globals
          /\ f_globals[name].func = OriginalOf(name)

C6_EventImpliesComplete ==
    /\ [](already_overwritten => InitComplete)
    /\ [][already_overwritten => already_overwritten']_vars
    /\ [][(~already_overwritten /\ already_overwritten') =>
            \E t \in Threads : /\ pc[t] = "set"
                               /\ overwrite_lock = t
                               /\ pc'[t] = "unlock"]_vars

C6_Witness ==
    /\ already_overwritten
    /\ reruns > 0
    /\ \A t \in Threads : pc[t] = "done"

\* C7: when the original returns, a timing entry is found and the open or the
\* write of the log file fails, the wrapper raises the failure and does not
\* return the original's result.
C7_WriteFailurePropagates ==
    (/\ n_calls > 0
     /\ LastOriginal.kind = "return"
     /\ last_call.found
     /\ LastWriteFails)
    => last_call.outcome = Raise("OSError")

C7_Witness ==
    /\ n_calls > 0
    /\ LastOriginal.kind = "return"
    /\ last_call.found
    /\ ProcessLog \in world.fs_dirs
    /\ ~last_call.io.write_ok
    /\ last_call.outcome = Raise("OSError")

\* the last prepare_directory returned False
DirectoryFailed == prepare_ret # <<>> /\ ~Truthy(prepare_ret[Len(prepare_ret)].value)

C8_Invariant ==
    /\ \A t \in Threads : pc[t] # "failed"
    /\ \A i \in 1..Len(prepare_ret) : prepare_ret[i].kind = "return"
    /\ prepare_ret # <<>> =>
          (Truthy(prepare_ret[Len(prepare_ret)].value) <=> ProcessLog \in world.fs_dirs)
    /\ (prepare_ret # <<>> /\ ~can_mkdir /\ ProcessLog \notin world.fs_dirs)
          => DirectoryFailed
    /\ (DirectoryFailed /\ pc[MainThread] = "done") =>
          /\ already_overwritten
          /\ InitComplete
    /\ (DirectoryFailed /\ n_calls > 0 /\ LastOriginal.kind = "return" /\ last_call.found)
          => last_call.outcome = Raise("OSError")

\* C8: prepare_directory never raises, returns False exactly when the directory
\* could not be made and True when it was made or was there; the main routine
\* goes on to the end whatever it returned, and a call that then reaches the
\* log write fails there.
C8_DirectoryFailureDeferred ==
    /\ []C8_Invariant
    /\ DirectoryFailed ~> (pc[MainThread] = "done" /\ already_overwritten /\ InitComplete)

C8_Witness ==
    /\ DirectoryFailed
    /\ pc[MainThread] = "done"
    /\ already_overwritten
    /\ n_calls > 0
    /\ LastOriginal.kind = "return"
    /\ last_call.io = [open_ok |-> TRUE, write_ok |-> TRUE]
    /\ last_call.outcome = Raise("OSError")

\* C9: get_process_name returns the decimal process id when the query wrote to
\* its error stream or printed nothing but whitespace, and the stripped output
\* otherwise; the label is never empty.
C9_LabelFallsBackToPid ==
    process_name # PyNone =>
        /\ process_name.str # <<>>
        /\ process_name.str =
              (IF ps_stderr # <<>> \/ strip(decode(ps_stdout)) = <<>>
               THEN PidStr(os_pid)
               ELSE strip(decode(ps_stdout)))

\* C10: when the original returns and the snapshot has no timing for the
\* function, nothing is opened, rendered or appended, no file is created, and
\* the wrapper returns the original's result.
C10_MissingTimingSkipsSilently ==
    [][(/\ n_calls' = n_calls + 1
        /\ Apply(OriginalOf(last_call'.name), last_call'.c).outcome.kind = "return"
        /\ ~last_call'.found)
       => /\ last_call'.outcome = Apply(OriginalOf(last_call'.name), last_call'.c).outcome
          /\ world'.open_calls = world.open_calls
          /\ world'.show_func_calls = world.show_func_calls
          /\ world'.fs_files = world.fs_files]_vars

C10_Witness ==
    /\ n_calls > 0
    /\ ~last_call.found
    /\ last_call.name = Name_module_do_long_work
    /\ last_call.outcome = Return(PyNone)
    /\ LastWriteFails

====
